---- MODULE Spec2Model ----
\* Build orchestration of the SumDB verifiable map (cmd "map"): main() reads the
\* log mirror (sumDBMirror), resolves the entry range and the build mode, runs
\* the Beam pipeline that writes the tiles, and finalizes the map revision.
\*
\* The mirror is a SQLite database written by another program (sumdbaudit); the
\* tile store is the mapdb.TileDB package, whose source is not part of the
\* files modelled here: its three operations are modelled from the
\* specification (sections 4.3 and 6) and are marked so below.
EXTENDS Integers, Sequences, FiniteSets, TLC

\* ---------------------------------------------------------------- bounds

\* Largest number of rows the leafMetadata table of the mirror grows to.
MaxLeaves == 2

\* Largest number of build invocations (runs of main) in one behaviour.
MaxInvocations == 2

\* ------------------------------------------------------------- constants

\* The invocation slots. Spec runs the builds one after another in slot 1.
Procs == {1, 2}

SeqProcs == {1}

\* A nil []byte (no checkpoint read yet).
Nil == -1

\* Values of the -count flag: -1 (use all) or a number of entries, one past the
\* largest mirror included so that "more than available" happens.
Counts == -1 .. (MaxLeaves + 1)

VARIABLES
    leafCount,      \* mirror: number of rows of leafMetadata, ids 0..leafCount-1
    checkpoint,     \* mirror: the most recent row of table checkpoints, or Nil
    initialised,    \* tile store: the schema exists (TileDB.Init has run)
    tiles,          \* tile store: the rows of table tiles (MapTile)
    revisions,      \* tile store: the rows of table revisions, in insert order
    proc,           \* per invocation slot: the position and locals of main
    allocated,      \* history: the numbers NextWriteRevision has returned
    built,          \* history: for each row of revisions, the rows its build produced
    invocations     \* number of invocations started

vars == <<leafCount, checkpoint, initialised, tiles, revisions, proc,
          allocated, built, invocations>>

mirrorVars == <<leafCount, checkpoint>>

storeVars == <<initialised, tiles, revisions, built>>

\* ---------------------------------------------------------------- helpers

Max(S) == CHOOSE x \in S : \A y \in S : y <= x

Last(s) == s[Len(s)]

\* ------------------------------------------------------------- log mirror

\* A checkpoint commits to a log size; it is opaque to main. The mirror stores
\* the checkpoint of the log it has copied so far.
CheckpointOf(size) == size

\* The log size a checkpoint commits to.
CheckpointSize(cp) == CHOOSE n \in 0 .. MaxLeaves : CheckpointOf(n) = cp

\* The mirroring program appends one leaf row.
MirrorAddLeaf ==
    /\ leafCount < MaxLeaves
    /\ leafCount' = leafCount + 1
    /\ UNCHANGED <<checkpoint, storeVars, proc, allocated, invocations>>

\* The mirroring program stores the checkpoint of the leaves it now holds; it
\* becomes the most recent row (older rows are never read again).
MirrorAddCheckpoint ==
    /\ checkpoint # CheckpointOf(leafCount)
    /\ checkpoint' = CheckpointOf(leafCount)
    /\ UNCHANGED <<leafCount, storeVars, proc, allocated, invocations>>

\* The query without its upper bound.
beamSource_unbounded(start, end) == {id \in 0 .. (leafCount - 1) : id >= start}

\* SELECT * FROM leafMetadata WHERE id >= start AND id < end
beamSource(start, end) == {id \in 0 .. (leafCount - 1) : id >= start /\ id < end}

\* ------------------------------------------------------------- tile store

\* Revision numbers present in either table of the tile store.
UsedRevisions ==
    {t.Revision : t \in tiles} \cup {revisions[i].revision : i \in DOMAIN revisions}

\* TileDB.NextWriteRevision: the next unused revision number, a query for the
\* maximum revision number of the tables.
NextWriteRevision == IF UsedRevisions = {} THEN 0 ELSE Max(UsedRevisions) + 1

\* TileDB.LatestRevision: the most recent metadata row, or not found.
LatestRevisionFound == Len(revisions) > 0

LatestRevision == Last(revisions)

\* TileDB.WriteRevision: the finalizing insert into table revisions.
WriteRevision(rev, logroot, n) ==
    Append(revisions, [revision |-> rev, logroot |-> logroot, count |-> n])

\* The sink: rows written into table tiles; a row with the same
\* (Revision, Path) is overwritten.
WriteTiles(batch) ==
    {t \in tiles : ~\E r \in batch : r.Revision = t.Revision /\ r.Path = t.Path}
        \cup batch

\* ------------------------------------------------------------ tree builder

\* The module an entry is about, which decides the tile its leaf falls in.
KeyOf(id) == IF id % 2 = 0 THEN "a" ELSE "b"

\* pipeline.CreateEntries: one leaf per log record.
CreateEntries(records) == {[key |-> KeyOf(id), id |-> id] : id \in records}

\* pipeline.MakeVersionList: per record, a leaf of the version list of the
\* record's module; the leaf is named by the negative number -(id + 1).
MakeVersionList(records) == {[key |-> KeyOf(id), id |-> 0 - (id + 1)] : id \in records}

\* batchmap.Create: the tiles of a tree built from the leaves alone.
Create(entries) ==
    {[Path |-> k, Leaves |-> {e.id : e \in {x \in entries : x.key = k}}] :
        k \in {e.key : e \in entries}}

\* batchmap.Update: the tiles of the base tree with the delta leaves merged in.
Update(base, entries) ==
    LET paths == {t.Path : t \in base} \cup {e.key : e \in entries}
        old(k) == UNION {t.Leaves : t \in {x \in base : x.Path = k}}
        new(k) == {e.id : e \in {x \in entries : x.key = k}}
    IN  {[Path |-> k, Leaves |-> old(k) \cup new(k)] : k \in paths}

\* json.Marshal of a batchmap.Tile, and json.Unmarshal of those bytes.
Marshal(t) == <<"Path", t.Path, "Leaves", t.Leaves>>

Unmarshal(bs) == [Path |-> bs[2], Leaves |-> bs[4]]

\* The row built without its Revision field set.
tileToDBRowFn_untagged(Revision, t) ==
    [Revision |-> 0, Path |-> t.Path, Tile |-> Marshal(t)]

\* tileToDBRowFn.ProcessElement
tileToDBRowFn(Revision, t) ==
    [Revision |-> Revision, Path |-> t.Path, Tile |-> Marshal(t)]

\* tileFromDBRowFn
tileFromDBRowFn(row) == Unmarshal(row.Tile)

\* ------------------------------------------------------------------- main

\* Flag defaults and zero values of main's locals. records, mapTiles, allTiles
\* and rows are the collections of the pipeline; ops (the accesses of the two
\* stores, in order), wrote (the rows written), before and initBefore record
\* what the invocation did and what it found.
InitProc ==
    [pc |-> "idle", count |-> -1, incrementalUpdate |-> FALSE,
     buildVersionList |-> FALSE, rev |-> 0, golden |-> Nil, totalLeaves |-> 0,
     endID |-> 0, startID |-> 0, lastMapRev |-> 0, records |-> {}, mapTiles |-> {},
     allTiles |-> {}, rows |-> {}, result |-> "none", before |-> <<>>,
     initBefore |-> FALSE, ops |-> <<>>, wrote |-> {}]

Init ==
    /\ leafCount = 0
    /\ checkpoint = Nil
    /\ initialised = FALSE
    /\ tiles = {}
    /\ revisions = <<>>
    /\ proc = [p \in Procs |-> InitProc]
    /\ allocated = <<>>
    /\ built = <<>>
    /\ invocations = 0

\* glog.Exitf: the process ends with a fatal error.
Exit(p, error) == proc' = [proc EXCEPT ![p].pc = "exit", ![p].result = error]

\* The command is run with its flags; "before" remembers the revisions table
\* the invocation found.
Start(p, c, incr, bvl) ==
    /\ proc[p].pc \in {"idle", "exit"}
    /\ \A q \in Procs : proc[q].pc \in {"idle", "exit"}
    /\ invocations < MaxInvocations
    /\ invocations' = invocations + 1
    /\ proc' = [proc EXCEPT ![p] =
                    [InitProc EXCEPT !.pc = "flags", !.count = c,
                                     !.incrementalUpdate = incr,
                                     !.buildVersionList = bvl,
                                     !.before = revisions,
                                     !.initBefore = initialised]]
    /\ UNCHANGED <<mirrorVars, storeVars, allocated>>

\* main without the check of the two flags.
CheckFlags_noCheck(p) ==
    /\ proc[p].pc = "flags"
    /\ proc' = [proc EXCEPT ![p].pc = "sink"]
    /\ UNCHANGED <<mirrorVars, storeVars, allocated, invocations>>

\* The command is run while another run of it may be under way on the same
\* two databases.
StartConcurrent(p, c, incr, bvl) ==
    /\ proc[p].pc \in {"idle", "exit"}
    /\ invocations < MaxInvocations
    /\ invocations' = invocations + 1
    /\ proc' = [proc EXCEPT ![p] =
                    [InitProc EXCEPT !.pc = "flags", !.count = c,
                                     !.incrementalUpdate = incr,
                                     !.buildVersionList = bvl,
                                     !.before = revisions,
                                     !.initBefore = initialised]]
    /\ UNCHANGED <<mirrorVars, storeVars, allocated>>

\* if *buildVersionList && *incrementalUpdate
CheckFlags(p) ==
    /\ proc[p].pc = "flags"
    /\ IF proc[p].buildVersionList /\ proc[p].incrementalUpdate
       THEN Exit(p, "ConfigError")
       ELSE proc' = [proc EXCEPT ![p].pc = "sink"]
    /\ UNCHANGED <<mirrorVars, storeVars, allocated, invocations>>

\* sinkFromFlags with the result of NextWriteRevision assigned to a shadowed
\* variable (rev, err := ...), so that the zero value is returned.
sinkFromFlags_shadowed(p) ==
    /\ proc[p].pc = "sink"
    /\ initialised' = TRUE
    /\ allocated' = Append(allocated, 0)
    /\ proc' = [proc EXCEPT ![p].pc = "checkpoint", ![p].rev = 0,
                            ![p].ops = <<"Init", "NextWriteRevision">>]
    /\ UNCHANGED <<mirrorVars, tiles, revisions, built, invocations>>

\* sinkFromFlags: open the tile store, create its schema and ask for the
\* revision to write at.
sinkFromFlags(p) ==
    /\ proc[p].pc = "sink"
    /\ initialised' = TRUE
    /\ allocated' = Append(allocated, NextWriteRevision)
    /\ proc' = [proc EXCEPT ![p].pc = "checkpoint", ![p].rev = NextWriteRevision,
                            ![p].ops = <<"Init", "NextWriteRevision">>]
    /\ UNCHANGED <<mirrorVars, tiles, revisions, built, invocations>>

\* The error of the first query dropped: main goes on with a nil checkpoint.
getCheckpoint_errorIgnored(p) ==
    /\ proc[p].pc = "checkpoint"
    /\ proc' = [proc EXCEPT ![p].pc = "leafCount", ![p].golden = checkpoint,
                            ![p].ops = Append(@, "checkpoint")]
    /\ UNCHANGED <<mirrorVars, storeVars, allocated, invocations>>

\* getEntryMetadata, first query: the latest checkpoint; no row is an error.
getCheckpoint(p) ==
    /\ proc[p].pc = "checkpoint"
    /\ IF checkpoint = Nil
       THEN proc' = [proc EXCEPT ![p].pc = "exit", ![p].result = "StoreError",
                                 ![p].ops = Append(@, "checkpoint")]
       ELSE proc' = [proc EXCEPT ![p].pc = "leafCount",
                                 ![p].golden = checkpoint,
                                 ![p].ops = Append(@, "checkpoint")]
    /\ UNCHANGED <<mirrorVars, storeVars, allocated, invocations>>

\* getEntryMetadata, second query: SELECT COUNT(*) FROM leafMetadata. The
\* return statement names leafCount beside the Scan that stores into it; the
\* Go compiler runs the call before it reads the variable, so the count that
\* was scanned is the value returned.
getLeafCount(p) ==
    /\ proc[p].pc = "leafCount"
    /\ proc' = [proc EXCEPT ![p].pc = "range", ![p].totalLeaves = leafCount,
                            ![p].ops = Append(@, "leafCount")]
    /\ UNCHANGED <<mirrorVars, storeVars, allocated, invocations>>

\* The comparison with <= : a cap equal to the total is refused.
InsufficientLeaves_orEqual(totalLeaves, c) == totalLeaves <= c

\* The comparison off by one.
InsufficientLeaves_offByOne(totalLeaves, c) == totalLeaves + 1 < c

\* if totalLeaves < *count
InsufficientLeaves(totalLeaves, c) == totalLeaves < c

\* A count of 0 taken for "use all".
EndID_zeroIsAll(c, totalLeaves) == IF c <= 0 THEN totalLeaves ELSE c

\* endID is determined by the count flag and the number of entries available.
EndID(c, totalLeaves) == IF c < 0 THEN totalLeaves ELSE c

\* The comparison as the message of the fatal error prints it (%d > %d).
EmptyRange_strict(startID, endID) == startID > endID

\* if startID >= endID
EmptyRange(startID, endID) == startID >= endID

\* Range resolution that consults the latest revision in both modes; without
\* -incremental_update a store that holds no revision gives the range from 0.
ResolveRange_alwaysLatest(p) ==
    /\ proc[p].pc = "range"
    /\ LET endID == EndID(proc[p].count, proc[p].totalLeaves)
       IN  IF InsufficientLeaves(proc[p].totalLeaves, proc[p].count)
           THEN Exit(p, "RangeError")
           ELSE IF ~LatestRevisionFound
           THEN IF proc[p].incrementalUpdate
                THEN proc' = [proc EXCEPT ![p].pc = "exit", ![p].result = "RangeError",
                                          ![p].endID = endID,
                                          ![p].ops = Append(@, "LatestRevision")]
                ELSE proc' = [proc EXCEPT ![p].pc = "pipeline", ![p].endID = endID,
                                          ![p].ops = Append(@, "LatestRevision")]
           ELSE IF EmptyRange(LatestRevision.count, endID)
           THEN proc' = [proc EXCEPT ![p].pc = "exit", ![p].result = "RangeError",
                                     ![p].endID = endID,
                                     ![p].startID = LatestRevision.count,
                                     ![p].lastMapRev = LatestRevision.revision,
                                     ![p].ops = Append(@, "LatestRevision")]
           ELSE proc' = [proc EXCEPT ![p].pc = "pipeline", ![p].endID = endID,
                                     ![p].startID = LatestRevision.count,
                                     ![p].lastMapRev = LatestRevision.revision,
                                     ![p].ops = Append(@, "LatestRevision")]
    /\ UNCHANGED <<mirrorVars, storeVars, allocated, invocations>>

\* Range and mode resolution of main.
ResolveRange(p) ==
    /\ proc[p].pc = "range"
    /\ LET endID == EndID(proc[p].count, proc[p].totalLeaves)
       IN  IF InsufficientLeaves(proc[p].totalLeaves, proc[p].count)
           THEN Exit(p, "RangeError")
           ELSE IF ~proc[p].incrementalUpdate
           THEN proc' = [proc EXCEPT ![p].pc = "pipeline", ![p].endID = endID]
           ELSE IF ~LatestRevisionFound
           THEN proc' = [proc EXCEPT ![p].pc = "exit", ![p].result = "RangeError",
                                     ![p].endID = endID,
                                     ![p].ops = Append(@, "LatestRevision")]
           ELSE IF EmptyRange(LatestRevision.count, endID)
           THEN proc' = [proc EXCEPT ![p].pc = "exit", ![p].result = "RangeError",
                                     ![p].endID = endID,
                                     ![p].startID = LatestRevision.count,
                                     ![p].lastMapRev = LatestRevision.revision,
                                     ![p].ops = Append(@, "LatestRevision")]
           ELSE proc' = [proc EXCEPT ![p].pc = "pipeline", ![p].endID = endID,
                                     ![p].startID = LatestRevision.count,
                                     ![p].lastMapRev = LatestRevision.revision,
                                     ![p].ops = Append(@, "LatestRevision")]
    /\ UNCHANGED <<mirrorVars, storeVars, allocated, invocations>>

\* WriteRevision placed before beamx.Run: the revision is finalized when the
\* pipeline has been constructed, and again after the run.
BuildPipeline_commitFirst(p) ==
    /\ proc[p].pc = "pipeline"
    /\ revisions' = WriteRevision(proc[p].rev, proc[p].golden, proc[p].endID)
    /\ built' = Append(built, {})
    /\ proc' = [proc EXCEPT ![p].pc = "run", ![p].ops = Append(@, "WriteRevision")]
    /\ UNCHANGED <<mirrorVars, initialised, tiles, allocated, invocations>>

\* The pipeline is constructed (beam.NewPipelineWithRoot .. WriteWithBatchSize);
\* nothing is read or written yet.
BuildPipeline(p) ==
    /\ proc[p].pc = "pipeline"
    /\ proc' = [proc EXCEPT ![p].pc = "run"]
    /\ UNCHANGED <<mirrorVars, storeVars, allocated, invocations>>

\* The query made with the revision being written, not the previous one.
QueryMapTiles_wrongRevision(lastMapRev) == {t \in tiles : t.Revision = lastMapRev + 1}

\* The query for the tiles of the previous revision.
QueryMapTiles(lastMapRev) == {t \in tiles : t.Revision = lastMapRev}

\* The leaves the tree is built from.
Entries(p, records) ==
    IF proc[p].buildVersionList
    THEN CreateEntries(records) \cup MakeVersionList(records)
    ELSE CreateEntries(records)

\* The tiles the pipeline computes.
AllTiles(p, mapTiles, records) ==
    IF proc[p].incrementalUpdate
    THEN Update({tileFromDBRowFn(t) : t \in mapTiles}, Entries(p, records))
    ELSE Create(Entries(p, records))

\* beamx.Run, up to the sink: the sources are read and the tiles computed.
RunTransforms(p) ==
    /\ proc[p].pc = "run"
    /\ LET records == beamSource(proc[p].startID, proc[p].endID)
           mapTiles == IF proc[p].incrementalUpdate
                       THEN QueryMapTiles(proc[p].lastMapRev) ELSE {}
           allTiles == AllTiles(p, mapTiles, records)
           rows == {tileToDBRowFn(proc[p].rev, t) : t \in allTiles}
       IN  proc' = [proc EXCEPT ![p].pc = "write", ![p].records = records,
                                ![p].mapTiles = mapTiles,
                                ![p].allTiles = rows, ![p].rows = rows,
                                ![p].ops = IF proc[p].incrementalUpdate
                                           THEN @ \o <<"beamSource", "QueryMapTiles">>
                                           ELSE Append(@, "beamSource")]
    /\ UNCHANGED <<mirrorVars, storeVars, allocated, invocations>>

\* beamx.Run, the sink: one batch of rows is written.
RunSink(p) ==
    /\ proc[p].pc = "write"
    /\ \E r \in proc[p].rows :
          /\ tiles' = WriteTiles({r})
          /\ proc' = [proc EXCEPT ![p].rows = @ \ {r},
                                  ![p].ops = Append(@, "WriteTiles"),
                                  ![p].wrote = @ \cup {r}]
    /\ UNCHANGED <<mirrorVars, initialised, revisions, built, allocated, invocations>>

\* The error of beamx.Run logged but not fatal: main goes on to WriteRevision.
RunFails_notFatal(p) ==
    /\ proc[p].pc \in {"run", "write"}
    /\ revisions' = WriteRevision(proc[p].rev, proc[p].golden, proc[p].endID)
    /\ built' = Append(built, proc[p].allTiles)
    /\ proc' = [proc EXCEPT ![p].pc = "exit", ![p].result = "BuildError",
                            ![p].records = {}, ![p].mapTiles = {},
                            ![p].allTiles = {}, ![p].rows = {}, ![p].wrote = {}]
    /\ UNCHANGED <<mirrorVars, initialised, tiles, allocated, invocations>>

\* beamx.Run returns an error: a transform or a write failed. The collections
\* of the pipeline are gone with it.
RunFails(p) ==
    /\ proc[p].pc \in {"run", "write"}
    /\ proc' = [proc EXCEPT ![p].pc = "exit", ![p].result = "BuildError",
                            ![p].records = {}, ![p].mapTiles = {},
                            ![p].allTiles = {}, ![p].rows = {}, ![p].wrote = {}]
    /\ UNCHANGED <<mirrorVars, storeVars, allocated, invocations>>

\* The pipeline taken for finished as soon as the sink has started.
RunSucceeded_early(p) == proc[p].pc = "write"

\* beamx.Run returned nil: every row has been written.
RunSucceeded(p) == proc[p].pc = "write" /\ proc[p].rows = {}

\* WriteRevision called with totalLeaves in place of endID.
Finalize_totalLeaves(p) ==
    /\ RunSucceeded(p)
    /\ revisions' = WriteRevision(proc[p].rev, proc[p].golden, proc[p].totalLeaves)
    /\ built' = Append(built, proc[p].allTiles)
    /\ proc' = [proc EXCEPT ![p].pc = "exit", ![p].result = "OK",
                            ![p].ops = Append(@, "WriteRevision")]
    /\ UNCHANGED <<mirrorVars, initialised, tiles, allocated, invocations>>

\* mapDB.WriteRevision(rev, golden, endID)
Finalize(p) ==
    /\ RunSucceeded(p)
    /\ revisions' = WriteRevision(proc[p].rev, proc[p].golden, proc[p].endID)
    /\ built' = Append(built, proc[p].allTiles)
    /\ proc' = [proc EXCEPT ![p].pc = "exit", ![p].result = "OK",
                            ![p].ops = Append(@, "WriteRevision")]
    /\ UNCHANGED <<mirrorVars, initialised, tiles, allocated, invocations>>

\* The process is killed: its locals are lost with it.
Kill(p) ==
    /\ proc[p].pc \notin {"idle", "exit"}
    /\ proc' = [proc EXCEPT ![p] = [InitProc EXCEPT !.pc = "exit",
                                                    !.result = "Killed",
                                                    !.before = proc[p].before,
                                                    !.initBefore = proc[p].initBefore]]
    /\ UNCHANGED <<mirrorVars, storeVars, allocated, invocations>>

Next ==
    \/ MirrorAddLeaf
    \/ MirrorAddCheckpoint
    \/ \E p \in SeqProcs, c \in Counts, incr \in BOOLEAN, bvl \in BOOLEAN :
          Start(p, c, incr, bvl)
    \/ \E p \in SeqProcs : CheckFlags(p)
    \/ \E p \in SeqProcs : sinkFromFlags(p)
    \/ \E p \in SeqProcs : getCheckpoint(p)
    \/ \E p \in SeqProcs : getLeafCount(p)
    \/ \E p \in SeqProcs : ResolveRange(p)
    \/ \E p \in SeqProcs : BuildPipeline(p)
    \/ \E p \in SeqProcs : RunTransforms(p)
    \/ \E p \in SeqProcs : RunSink(p)
    \/ \E p \in SeqProcs : RunFails(p)
    \/ \E p \in SeqProcs : Finalize(p)
    \/ \E p \in SeqProcs : Kill(p)

Spec == Init /\ [][Next]_vars

\* Two runs of the command at a time on the same mirror and tile store.
NextConcurrent ==
    \/ MirrorAddLeaf
    \/ MirrorAddCheckpoint
    \/ \E p \in Procs, c \in Counts, incr \in BOOLEAN, bvl \in BOOLEAN :
          StartConcurrent(p, c, incr, bvl)
    \/ \E p \in Procs : CheckFlags(p)
    \/ \E p \in Procs : sinkFromFlags(p)
    \/ \E p \in Procs : getCheckpoint(p)
    \/ \E p \in Procs : getLeafCount(p)
    \/ \E p \in Procs : ResolveRange(p)
    \/ \E p \in Procs : BuildPipeline(p)
    \/ \E p \in Procs : RunTransforms(p)
    \/ \E p \in Procs : RunSink(p)
    \/ \E p \in Procs : RunFails(p)
    \/ \E p \in Procs : Finalize(p)
    \/ \E p \in Procs : Kill(p)

SpecConcurrent == Init /\ [][NextConcurrent]_vars

\* ----------------------------------------------------------------- claims

\* What a reader of the tile store gets from LatestRevision.
LatestOf(revs) == IF Len(revs) = 0 THEN <<FALSE, <<>>>> ELSE <<TRUE, Last(revs)>>

\* The invocation has got past range resolution: it is at the pipeline, or it
\* ended with the outcome of the resolution or of the pipeline.
Resolved(p) ==
    \/ proc[p].pc \in {"pipeline", "run", "write"}
    \/ proc[p].pc = "exit" /\ proc[p].result \in {"RangeError", "BuildError", "OK"}

\* endID as section 4.1 of the specification gives it: the cap, or the total.
RequestedEndID(p) == IF proc[p].count < 0 THEN proc[p].totalLeaves ELSE proc[p].count

\* C1: the revision LatestRevision returns has all the tiles its build
\* produced in table tiles, in every state a reader can look at the store
\* (builds that succeeded, failed in the pipeline or were killed included).
C1_LatestRevisionComplete ==
    LatestRevisionFound =>
        QueryMapTiles(LatestRevision.revision) = built[Len(built)]

\* C1 happens: a revision of two tiles is committed after an aborted build
\* left tiles of another revision behind.
C1_Witness ==
    /\ LatestRevisionFound
    /\ Cardinality(QueryMapTiles(LatestRevision.revision)) = 2
    /\ \E t \in tiles : t.Revision # LatestRevision.revision

\* C2: when the pipeline fails, LatestRevision returns after the invocation
\* what it returned before it, whatever tiles the run wrote.
C2_FailedBuildCommitsNothing ==
    \A p \in Procs :
        proc[p].result = "BuildError" =>
            LatestOf(revisions) = LatestOf(proc[p].before)

\* C2 happens: a build over an existing revision failed after writing tiles.
C2_Witness ==
    \E p \in Procs :
        /\ proc[p].result = "BuildError"
        /\ QueryMapTiles(proc[p].rev) # {}
        /\ LatestRevisionFound

\* C3: the numbers NextWriteRevision returns strictly increase over the
\* successive invocations (none is returned twice), aborted ones included.
C3_AllocationStrictlyIncreasing ==
    \A i, j \in DOMAIN allocated : i < j => allocated[i] < allocated[j]

\* C4: each committed revision covers at least as many entries as the
\* revision committed before it.
C4_CoveredCountNonDecreasing ==
    \A i, j \in DOMAIN revisions : i < j => revisions[i].count <= revisions[j].count

\* C5: each committed revision number is strictly greater than every number
\* committed before it, also after a committed build that produced no tiles.
C5_CommitsStrictlyIncreasing ==
    \A i, j \in DOMAIN revisions :
        i < j => revisions[i].revision < revisions[j].revision

\* C5 happens: a second revision is committed after one that has no tiles.
C5_Witness ==
    /\ Len(revisions) = 2
    /\ built[1] = {}

\* C6: a successful build has committed the revision it was allocated, the
\* checkpoint it read and the endID it resolved; a full build of all entries
\* (count = -1) into a tile store that held nothing commits revision 0 covering
\* the entries of the mirror, bound to the mirror's checkpoint.
C6_SuccessCommitsTriple ==
    \A p \in Procs :
        proc[p].result = "OK" =>
            /\ LatestRevision = [revision |-> Last(allocated),
                                 logroot |-> proc[p].golden,
                                 count |-> RequestedEndID(p)]
            /\ proc[p].rev = Last(allocated)
            /\ ( /\ ~proc[p].incrementalUpdate
                 /\ proc[p].count = -1
                 /\ proc[p].before = <<>>
                 /\ \A t \in tiles : t.Revision = proc[p].rev
                 /\ leafCount = proc[p].totalLeaves
                 /\ checkpoint = proc[p].golden )
               => LatestRevision = [revision |-> 0, logroot |-> checkpoint,
                                    count |-> leafCount]

\* C6 happens: the full build of the whole mirror into the empty tile store.
C6_Witness ==
    \E p \in Procs :
        /\ proc[p].result = "OK"
        /\ ~proc[p].incrementalUpdate
        /\ proc[p].count = -1
        /\ leafCount = MaxLeaves
        /\ LatestRevision = [revision |-> 0, logroot |-> CheckpointOf(MaxLeaves),
                             count |-> MaxLeaves]

\* C7: a successful incremental build started at the entry count of the
\* revision that was the latest, ended beyond it, was fed the tiles that
\* revision's build produced, and committed its endID.
C7_IncrementalBuild ==
    \A p \in Procs :
        (proc[p].result = "OK" /\ proc[p].incrementalUpdate) =>
            /\ proc[p].before # <<>>
            /\ proc[p].startID = Last(proc[p].before).count
            /\ proc[p].endID > proc[p].startID
            /\ proc[p].lastMapRev = Last(proc[p].before).revision
            /\ proc[p].mapTiles = built[Len(proc[p].before)]
            /\ LatestRevision.count = proc[p].endID
            /\ LatestRevision.revision = proc[p].rev

\* C7 happens: revision 0 covers one entry, the mirror grows to two with a new
\* checkpoint, and the incremental build of [1, 2) reuses the tiles of
\* revision 0 and commits revision 1.
C7_Witness ==
    \E p \in Procs :
        /\ proc[p].result = "OK"
        /\ proc[p].incrementalUpdate
        /\ proc[p].startID = 1
        /\ proc[p].endID = 2
        /\ proc[p].mapTiles # {}
        /\ revisions[1].logroot = CheckpointOf(1)
        /\ LatestRevision = [revision |-> 1, logroot |-> CheckpointOf(2), count |-> 2]

\* C8: an incremental build that finds no committed revision, or one covering
\* at least the requested endID, ends in a RangeError: it does not get to the
\* pipeline, writes no tile and commits nothing.
C8_IncrementalRangeError ==
    \A p \in Procs :
        ( /\ Resolved(p)
          /\ proc[p].incrementalUpdate
          /\ \/ proc[p].before = <<>>
             \/ Last(proc[p].before).count >= RequestedEndID(p) )
        => /\ proc[p].pc = "exit"
           /\ proc[p].result = "RangeError"
           /\ revisions = proc[p].before
           /\ QueryMapTiles(proc[p].rev) = {}

\* C8 happens: the cap is within the mirror but below the count the latest
\* revision covers.
C8_Witness ==
    \E p \in Procs :
        /\ proc[p].result = "RangeError"
        /\ proc[p].incrementalUpdate
        /\ proc[p].before # <<>>
        /\ proc[p].count >= 0
        /\ proc[p].count <= proc[p].totalLeaves
        /\ Last(proc[p].before).count > proc[p].count

\* C9: a full build whose cap does not exceed the total resolves the range
\* from 0 to the cap, or to the total when there is no cap, whatever
\* revisions the tile store holds.
C9_FullRange ==
    \A p \in Procs :
        ( /\ proc[p].pc \in {"pipeline", "run", "write"}
          /\ ~proc[p].incrementalUpdate
          /\ proc[p].count <= proc[p].totalLeaves )
        => /\ proc[p].startID = 0
           /\ proc[p].endID = RequestedEndID(p)

\* C9 happens: a capped full build over a store whose latest revision covers
\* more than the cap.
C9_Witness ==
    \E p \in Procs :
        /\ proc[p].pc = "pipeline"
        /\ ~proc[p].incrementalUpdate
        /\ proc[p].count >= 0
        /\ proc[p].count < proc[p].totalLeaves
        /\ proc[p].before # <<>>
        /\ Last(proc[p].before).count > proc[p].count

\* C10: a build whose cap exceeds the total it read ends in a RangeError
\* without getting to the pipeline, in either mode, and commits nothing.
C10_CapBeyondTotal ==
    \A p \in Procs :
        (Resolved(p) /\ proc[p].count > proc[p].totalLeaves)
        => /\ proc[p].pc = "exit"
           /\ proc[p].result = "RangeError"
           /\ revisions = proc[p].before
           /\ QueryMapTiles(proc[p].rev) = {}

\* C10 happens: an incremental build over an existing revision, with a cap
\* one beyond a mirror that has entries.
C10_Witness ==
    \E p \in Procs :
        /\ proc[p].result = "RangeError"
        /\ proc[p].incrementalUpdate
        /\ proc[p].before # <<>>
        /\ proc[p].totalLeaves > 0
        /\ proc[p].count = proc[p].totalLeaves + 1

\* The invocation has made the named access of a store.
Did(p, name) == \E i \in DOMAIN proc[p].ops : proc[p].ops[i] = name

\* How many times the invocation has made it.
Times(p, name) == Cardinality({i \in DOMAIN proc[p].ops : proc[p].ops[i] = name})

\* C11: with both -incremental_update and -build_version_list the run ends
\* in a ConfigError whatever the other flags and the stores hold, and it has
\* not read or written either store by then.
C11_ConfigErrorBeforeIO ==
    \A p \in Procs :
        ( /\ proc[p].incrementalUpdate
          /\ proc[p].buildVersionList
          /\ proc[p].pc \notin {"idle", "flags"} )
        => /\ proc[p].pc = "exit"
           /\ proc[p].result = "ConfigError"
           /\ proc[p].ops = <<>>
           /\ revisions = proc[p].before
           /\ initialised = proc[p].initBefore

\* C11 happens: on a new tile store and a mirror without a checkpoint, with a
\* cap beyond the mirror, the error reported is the ConfigError.
C11_Witness ==
    \E p \in Procs :
        /\ proc[p].result = "ConfigError"
        /\ ~initialised
        /\ checkpoint = Nil
        /\ proc[p].count > leafCount

\* C12: an incremental build that finds no committed revision ends in a
\* RangeError and has written nothing: the schema, the tiles, the revisions
\* table and the next revision number are as the invocation found them.
C12_NoPriorRevisionNoWrites ==
    \A p \in Procs :
        ( /\ proc[p].result = "RangeError"
          /\ proc[p].incrementalUpdate
          /\ proc[p].before = <<>> )
        => /\ initialised = proc[p].initBefore
           /\ proc[p].wrote = {}
           /\ ~Did(p, "WriteTiles")
           /\ ~Did(p, "WriteRevision")
           /\ revisions = proc[p].before
           /\ NextWriteRevision = proc[p].rev

\* C13: a full build of a mirror without entries is no error: it resolves
\* [0, 0), and when it succeeds it has committed a revision of 0 entries and
\* no tiles; a build after it is given another revision number.
C13_EmptyFullBuild ==
    \A p \in Procs :
        /\ ( /\ Resolved(p)
             /\ ~proc[p].incrementalUpdate
             /\ proc[p].totalLeaves = 0
             /\ proc[p].count <= 0 )
           => /\ proc[p].result # "RangeError"
              /\ proc[p].startID = 0
              /\ proc[p].endID = 0
              /\ proc[p].result = "OK" =>
                    /\ LatestRevision.count = 0
                    /\ LatestRevision.revision = proc[p].rev
                    /\ built[Len(built)] = {}
        /\ Did(p, "NextWriteRevision") =>
              \A i \in DOMAIN proc[p].before :
                  proc[p].before[i].count = 0 =>
                      proc[p].rev # proc[p].before[i].revision

\* C13 happens: the build after a committed empty revision 0, in a store
\* without a tile, has been given revision 1.
C13_Witness ==
    \E p \in Procs :
        /\ Did(p, "NextWriteRevision")
        /\ Len(proc[p].before) = 1
        /\ proc[p].before[1].count = 0
        /\ built[1] = {}
        /\ tiles = {}
        /\ proc[p].rev = 1

\* C14: a run that finds no checkpoint in the mirror ends there, in either
\* mode, without running the pipeline or committing; every committed revision
\* carries a checkpoint of the mirror.
C14_NoCheckpointFatal ==
    /\ \A i \in DOMAIN revisions :
          revisions[i].logroot \in {CheckpointOf(n) : n \in 0 .. MaxLeaves}
    /\ \A p \in Procs :
          (Did(p, "checkpoint") /\ proc[p].golden = Nil)
          => /\ proc[p].pc = "exit"
             /\ proc[p].result = "StoreError"
             /\ ~Did(p, "beamSource")
             /\ proc[p].wrote = {}
             /\ revisions = proc[p].before

\* C14 happens: an incremental run on a mirror that has leaves but no
\* checkpoint.
C14_Witness ==
    \E p \in Procs :
        /\ proc[p].result = "StoreError"
        /\ proc[p].incrementalUpdate
        /\ leafCount > 0

\* C15: two runs under way at the same time on one tile store have been
\* given different revision numbers.
C15_ConcurrentAllocationDistinct ==
    \A p, q \in Procs :
        ( /\ p # q
          /\ proc[p].pc \notin {"idle", "exit"}
          /\ proc[q].pc \notin {"idle", "exit"}
          /\ Did(p, "NextWriteRevision")
          /\ Did(q, "NextWriteRevision") )
        => proc[p].rev # proc[q].rev

\* C16: a run that ended in a RangeError or a ConfigError has not asked for
\* the next write revision.
C16_ErrorsBeforeAllocation ==
    \A p \in Procs :
        proc[p].result \in {"RangeError", "ConfigError"} =>
            ~Did(p, "NextWriteRevision")

C18_RowsTaggedWithRevision ==
    \A p \in Procs :
        /\ \A r \in proc[p].allTiles \cup proc[p].wrote :
              /\ r.Revision = proc[p].rev
              /\ r.Path = tileFromDBRowFn(r).Path
        /\ proc[p].wrote \subseteq QueryMapTiles(proc[p].rev)
        /\ proc[p].result = "OK" =>
              /\ LatestRevision.revision = proc[p].rev
              /\ QueryMapTiles(LatestRevision.revision) = proc[p].wrote

\* C18 happens: a successful run at revision 1 that wrote two rows.
C18_Witness ==
    \E p \in Procs :
        /\ proc[p].result = "OK"
        /\ proc[p].rev = 1
        /\ Cardinality(proc[p].wrote) = 2

\* C19: the entries the pipeline read are those with startID <= id < endID,
\* and the same query gives the same entries in every later state, whatever
\* the mirror has appended meanwhile.
C19_EntriesFixed ==
    \A p \in Procs :
        (proc[p].pc = "write" \/ proc[p].result = "OK") =>
            /\ proc[p].records = proc[p].startID .. (proc[p].endID - 1)
            /\ beamSource(proc[p].startID, proc[p].endID) = proc[p].records

\* C19 happens: the mirror has grown beyond the total the run read, and beyond
\* its endID, after the entries were read.
C19_Witness ==
    \E p \in Procs :
        /\ proc[p].pc = "write" \/ proc[p].result = "OK"
        /\ proc[p].records # {}
        /\ leafCount > proc[p].totalLeaves
        /\ leafCount > proc[p].endID

\* C20: the row and the tiles of every revision committed before a run are,
\* during and after the run, what they were when the revision was committed.
C20_CommittedRevisionsImmutable ==
    \A p \in Procs :
        proc[p].pc # "idle" =>
            \A i \in DOMAIN proc[p].before :
                /\ i <= Len(revisions)
                /\ revisions[i] = proc[p].before[i]
                /\ QueryMapTiles(proc[p].before[i].revision) = built[i]

\* C20 happens: a later successful run wrote a tile at a path that the
\* committed revision before it has a tile at.
C20_Witness ==
    \E p \in Procs :
        /\ proc[p].result = "OK"
        /\ Len(proc[p].before) = 1
        /\ \E r \in proc[p].wrote, t \in built[1] : r.Path = t.Path

\* C21: the entry count recorded with every committed revision is the log
\* size the checkpoint recorded with it commits to.
C21_CountMatchesCheckpoint ==
    \A i \in DOMAIN revisions :
        revisions[i].count = CheckpointSize(revisions[i].logroot)

\* The tiles a full build of the first n entries consists of, by the flags
\* and the mirror alone.
FullBuildTiles(n, versionList) ==
    LET recs == 0 .. (n - 1)
    IN  Create(IF versionList
               THEN CreateEntries(recs) \cup MakeVersionList(recs)
               ELSE CreateEntries(recs))

\* C22: a full build does not call LatestRevision and reads no tiles; its
\* range, the entries it reads and the tiles it computes are given by the
\* cap, the total it read and the flags alone, so that tile stores with
\* different contents make it differ in the revision number only.
C22_FullBuildIgnoresStore ==
    \A p \in Procs :
        ( /\ ~proc[p].incrementalUpdate
          /\ proc[p].pc = "write" \/ proc[p].result = "OK" )
        => /\ ~Did(p, "LatestRevision")
           /\ ~Did(p, "QueryMapTiles")
           /\ proc[p].mapTiles = {}
           /\ proc[p].startID = 0
           /\ proc[p].endID = RequestedEndID(p)
           /\ proc[p].records = 0 .. (RequestedEndID(p) - 1)
           /\ {tileFromDBRowFn(r) : r \in proc[p].allTiles}
                 = FullBuildTiles(RequestedEndID(p), proc[p].buildVersionList)
           /\ \A r \in proc[p].allTiles : r.Revision = proc[p].rev

\* C22 happens: a full build on a store that holds a committed revision has
\* computed the tiles that the full build on the empty store had computed,
\* under another revision number.
C22_Witness ==
    \E p \in Procs :
        /\ proc[p].result = "OK"
        /\ ~proc[p].incrementalUpdate
        /\ Len(revisions) = 2
        /\ built[1] # {}
        /\ {tileFromDBRowFn(r) : r \in built[1]} = {tileFromDBRowFn(r) : r \in built[2]}
        /\ built[1] # built[2]
        /\ proc[p].mapTiles = {}

====
